---- MODULE Spec2Model ----
(***************************************************************************)
(* The question-answering pipeline of the study-guide bot: the per-channel *)
(* knowledge-base files (data/<channel_id>.txt), the SQLite tables         *)
(* channel_stats and question_history, the in-memory maps user_context and *)
(* debug_data, and the slash commands /ask, /dataupload, /datadelete and   *)
(* /dataview that read and write them.                                     *)
(*                                                                         *)
(* Commands are asyncio coroutines of one process: a command runs without  *)
(* interruption from one suspension point (a network send, an aiofiles     *)
(* thread-pool call, the completion request) to the next, so every action  *)
(* below is the code between two suspension points.  The sqlite3 calls are *)
(* blocking calls inside coroutines that never suspend, so they belong to  *)
(* the action of the code around them.                                     *)
(*                                                                         *)
(* Text is a sequence of one-character strings.  Time is counted in ticks  *)
(* of 1/TicksPerSec second since the process started.                      *)
(***************************************************************************)
EXTENDS Integers, Sequences, FiniteSets, TLC

----------------------------------------------------------------------------
(* Bounds of the model *)

MaxOps == 3         \* commands started in one behaviour of Spec
MaxTime == 1        \* last tick of the clock in Spec
MaxLen == 3         \* longest uploaded text in SpecStore
MaxStoreOps == 3    \* commands started in one behaviour of SpecStore
MaxAppends == 7     \* add_user_context calls in one behaviour of SpecCtx
MaxStatsOps == 4    \* commands started in one behaviour of SpecStats
MaxStatsTime == 2   \* last tick of the clock in SpecStats
MaxRateOps == 2     \* commands started in one behaviour of SpecRate
MaxRateTime == 11   \* last tick of the clock in SpecRate

MaxAsked == 4       \* questions answered before a behaviour of SpecPrompt
MaxPromptOps == 1   \* commands started in one behaviour of SpecPrompt
MaxRecordOps == 2   \* commands started in one behaviour of SpecRecord
MaxFilterLen == 5   \* longest completion in SpecFilter

TicksPerSec == 2    \* resolution of the model's clock

Reqs == {1, 2}                  \* command coroutines that can be in flight
Channels == {101, 102}          \* interaction.channel_id
Users == {7, 8}                 \* interaction.user.id
Questions == {"q1", "q2"}       \* the question argument of /ask
UtcOffsets == {-3600, 0, 3600}  \* local time minus UTC, in seconds

----------------------------------------------------------------------------
(* Text *)

None == <<>>
Some(x) == <<x>>

CR == "\r"
LF == "\n"
Whitespace == {" ", "\t", CR, LF}
Chars == {"a", " ", CR, LF}

BoundedSeq(S, n) == UNION {[1..k -> S] : k \in 0..n}

RECURSIVE lstrip(_)
lstrip(s) ==
    IF s = <<>> THEN s
    ELSE IF Head(s) \in Whitespace THEN lstrip(Tail(s)) ELSE s

RECURSIVE rstrip(_)
rstrip(s) ==
    IF s = <<>> THEN s
    ELSE IF s[Len(s)] \in Whitespace THEN rstrip(SubSeq(s, 1, Len(s) - 1)) ELSE s

\* str.strip(): leading and trailing whitespace removed
strip(s) == rstrip(lstrip(s))

\* open(path, 'r') reads in text mode with newline=None: "\r\n" and a lone
\* "\r" are both read as "\n"
RECURSIVE read_text(_)
read_text(s) ==
    IF s = <<>> THEN <<>>
    ELSE IF Head(s) = CR
         THEN IF Len(s) >= 2 /\ s[2] = LF
              THEN <<LF>> \o read_text(SubSeq(s, 3, Len(s)))
              ELSE <<LF>> \o read_text(Tail(s))
         ELSE <<Head(s)>> \o read_text(Tail(s))

\* open(path, 'w') writes "\n" as os.linesep, which is "\n" on POSIX
write_text(s) == s

----------------------------------------------------------------------------
VARIABLES
    now,              \* the clock: ticks since the process started (UTC)
    utcOffset,        \* the host's time zone: local time minus UTC, seconds
    files,            \* data/<channel_id>.txt: channel_id -> file content
    channel_stats,    \* table channel_stats: channel_id -> row
    question_history, \* table question_history: the rows in id order
    user_context,     \* StudyGuideBot.user_context: user_id -> questions
    debug_data,       \* StudyGuideBot.debug_data: channel_id -> last exchange
    req,              \* the command coroutines in flight
    reply,            \* the last message a command sent to the chat
    ops,              \* commands started so far
    appended,         \* history: every question given to add_user_context
    recorded_at,      \* history: the tick each question_history row was inserted
    kb_saved          \* history: per channel, the last write to its file

vars == <<now, utcOffset, files, channel_stats, question_history, user_context,
          debug_data, req, reply, ops, appended, recorded_at, kb_saved>>

\* what /ask can change besides its own coroutine and the chat
stores == <<files, channel_stats, question_history, user_context, debug_data>>
history == <<appended, recorded_at, kb_saved>>

----------------------------------------------------------------------------
(* Dictionaries and rows *)

Put(f, k, v) == [x \in DOMAIN f \cup {k} |-> IF x = k THEN v ELSE f[x]]
Drop(f, k) == [x \in DOMAIN f \ {k} |-> f[x]]

\* datetime.now(): naive local time, in ticks
datetime_now == now + utcOffset * TicksPerSec

\* SQLite CURRENT_TIMESTAMP: UTC, 'YYYY-MM-DD HH:MM:SS', whole seconds
CURRENT_TIMESTAMP == now \div TicksPerSec

Idle ==
    [op |-> "none", pc |-> "idle", channel_id |-> 0, user_id |-> 0,
     question |-> "", content |-> <<>>, channel_data |-> None,
     user_context |-> None, prompt |-> None, answer |-> <<>>,
     gateway_calls |-> 0, gateway_failed |-> FALSE, attached |-> FALSE]

NoReply == [kind |-> "none", channel_id |-> 0, text |-> <<>>, gateway_calls |-> 0]

\* the message that ends a command: the channel it goes to, what it says (its
\* kind), the text it quotes, and how often the command called the gateway
Message(channel_id, kind, text, gateway_calls) ==
    [kind |-> kind, channel_id |-> channel_id, text |-> text,
     gateway_calls |-> gateway_calls]

NoWrite == [by |-> 0, saved |-> FALSE, content |-> <<>>]

\* str(e) of the exceptions the file system, sqlite3 and discord raise
OSErrorText == <<"[Errno 13] Permission denied: 'data/<channel_id>.txt'">>
SqliteErrorText == <<"database is locked">>
DeliveryErrorText == <<"503 Service Unavailable (error code: 0)">>

Init ==
    /\ now = 0
    /\ utcOffset \in UtcOffsets
    /\ files = <<>>
    /\ channel_stats = <<>>
    /\ question_history = <<>>
    /\ user_context = <<>>
    /\ debug_data = <<>>
    /\ req = [r \in Reqs |-> Idle]
    /\ reply = NoReply
    /\ ops = 0
    /\ appended = [u \in Users |-> <<>>]
    /\ recorded_at = <<>>
    /\ kb_saved = [c \in Channels |-> NoWrite]

----------------------------------------------------------------------------
(* StudyGuideBot: the knowledge-base files and channel_stats *)

os_path_exists(fs, channel_id) == channel_id \in DOMAIN fs

\* get_channel_data: None when the file is missing (or cannot be opened),
\* else the file read in text mode and stripped
\* variant: a missing file reads as the empty text instead of None
get_channel_data_empty(fs, channel_id) ==
    IF ~os_path_exists(fs, channel_id) THEN Some(<<>>)
    ELSE Some(strip(read_text(fs[channel_id])))

\* variant: the text is returned as read, without .strip()
get_channel_data_unstripped(fs, channel_id) ==
    IF ~os_path_exists(fs, channel_id) THEN None
    ELSE Some(read_text(fs[channel_id]))

get_channel_data(fs, channel_id) ==
    IF ~os_path_exists(fs, channel_id) THEN None
    ELSE Some(strip(read_text(fs[channel_id])))

\* update_channel_stats(channel_id, data_size): with a data_size, INSERT OR
\* REPLACE of the whole row, keeping questions_answered through the COALESCE
\* sub-select (created_at is not named, so the new row takes its default);
\* without one, INSERT OR IGNORE of a fresh row and then the UPDATE that
\* counts the question.  One commit: the table changes at once.
\* variant: a question replaces the row by a new one that counts it alone
update_channel_stats_replace(stats, channel_id, data_size) ==
    Put(stats, channel_id,
        [questions_answered |-> IF data_size # None THEN 0 ELSE 1,
         data_size |-> IF data_size # None THEN data_size[1] ELSE 0,
         last_updated |-> Some(datetime_now),
         created_at |-> CURRENT_TIMESTAMP])

update_channel_stats(stats, channel_id, data_size) ==
    IF data_size # None
    THEN Put(stats, channel_id,
             [questions_answered |->
                  IF channel_id \in DOMAIN stats
                  THEN stats[channel_id].questions_answered ELSE 0,
              data_size |-> data_size[1],
              last_updated |-> Some(datetime_now),
              created_at |-> CURRENT_TIMESTAMP])
    ELSE LET inserted ==
                 IF channel_id \in DOMAIN stats THEN stats
                 ELSE Put(stats, channel_id,
                          [questions_answered |-> 0, data_size |-> 0,
                           last_updated |-> None,
                           created_at |-> CURRENT_TIMESTAMP])
         IN  Put(inserted, channel_id,
                 [inserted[channel_id] EXCEPT
                      !.questions_answered = @ + 1,
                      !.last_updated = Some(datetime_now)])

Finish(r, kind, text) ==
    /\ reply' = Message(req[r].channel_id, kind, text, req[r].gateway_calls)
    /\ req' = [req EXCEPT ![r] = Idle]

\* what a write of text at the start of a file leaves in it
Overlay(old, text) == text \o SubSeq(old, Len(text) + 1, Len(old))

\* file.read() raises while the attachment is downloaded: the except branch
\* of /dataupload sends the exception's text
dataupload_fails(r, channel_id) ==
    /\ req[r].pc = "idle"
    /\ ops' = ops + 1
    /\ reply' = Message(channel_id, "upload_error", DeliveryErrorText, 0)
    /\ UNCHANGED <<now, utcOffset, stores, req, history>>

\* /dataupload up to save_channel_data's open(file_path, 'w'): the file now
\* exists and is empty, and the coroutine holds it open
dataupload_open(r, channel_id, content) ==
    /\ req[r].pc = "idle"
    /\ ops' = ops + 1
    /\ req' = [req EXCEPT ![r] = [Idle EXCEPT !.op = "dataupload", !.pc = "writing",
                                       !.channel_id = channel_id,
                                       !.content = content,
                                       !.attached = TRUE]]
    /\ files' = Put(files, channel_id, <<>>)
    /\ kb_saved' = [kb_saved EXCEPT ![channel_id] = NoWrite]
    /\ UNCHANGED <<now, utcOffset, channel_stats, question_history, user_context,
                   debug_data, reply, appended, recorded_at>>

\* open raises: save_channel_data returns False
dataupload_open_fails(r, channel_id, content) ==
    /\ req[r].pc = "idle"
    /\ ops' = ops + 1
    /\ reply' = Message(channel_id, "save_failed", <<>>, 0)
    /\ UNCHANGED <<now, utcOffset, stores, req, history>>

\* f.write(content) and the close of the file: the text goes to the start
\* of the file the coroutine opened, which is no longer the channel's file
\* when that was removed in the meantime (POSIX)
dataupload_write(r) ==
    /\ req[r].op = "dataupload" /\ req[r].pc = "writing"
    /\ IF req[r].attached
       THEN /\ files' = Put(files, req[r].channel_id,
                            Overlay(files[req[r].channel_id],
                                    write_text(req[r].content)))
            /\ kb_saved' = [kb_saved EXCEPT ![req[r].channel_id] =
                                [by |-> r, saved |-> FALSE,
                                 content |-> req[r].content]]
       ELSE UNCHANGED <<files, kb_saved>>
    /\ req' = [req EXCEPT ![r].pc = "saving", ![r].attached = FALSE]
    /\ UNCHANGED <<now, utcOffset, channel_stats, question_history, user_context,
                   debug_data, reply, ops, appended, recorded_at>>

\* the write raises: some prefix of the content is in the file, and
\* save_channel_data returns False
dataupload_write_fails(r) ==
    /\ req[r].op = "dataupload" /\ req[r].pc = "writing"
    /\ IF req[r].attached
       THEN /\ \E k \in 0..Len(req[r].content) :
                   files' = Put(files, req[r].channel_id,
                                Overlay(files[req[r].channel_id],
                                        write_text(SubSeq(req[r].content, 1, k))))
            /\ kb_saved' = [kb_saved EXCEPT ![req[r].channel_id] = NoWrite]
       ELSE UNCHANGED <<files, kb_saved>>
    /\ Finish(r, "save_failed", <<>>)
    /\ UNCHANGED <<now, utcOffset, channel_stats, question_history, user_context,
                   debug_data, ops, appended, recorded_at>>

\* update_channel_stats(channel_id, len(content)), return True, and the
\* "Knowledge Base Updated" embed
dataupload_stats(r) ==
    /\ req[r].op = "dataupload" /\ req[r].pc = "saving"
    /\ channel_stats' = update_channel_stats(channel_stats, req[r].channel_id,
                                             Some(Len(req[r].content)))
    /\ kb_saved' = [kb_saved EXCEPT ![req[r].channel_id] =
                        IF @.by = r THEN [@ EXCEPT !.saved = TRUE] ELSE @]
    /\ Finish(r, "uploaded", <<>>)
    /\ UNCHANGED <<now, utcOffset, files, question_history, user_context,
                   debug_data, ops, appended, recorded_at>>

\* sqlite3 raises in update_channel_stats: save_channel_data returns False
dataupload_stats_fails(r) ==
    /\ req[r].op = "dataupload" /\ req[r].pc = "saving"
    /\ Finish(r, "save_failed", <<>>)
    /\ UNCHANGED <<now, utcOffset, stores, ops, history>>

\* /datadelete arrives and defers its response
datadelete_start(r, channel_id) ==
    /\ req[r].pc = "idle"
    /\ ops' = ops + 1
    /\ req' = [req EXCEPT ![r] = [Idle EXCEPT !.op = "datadelete", !.pc = "deferred",
                                       !.channel_id = channel_id]]
    /\ UNCHANGED <<now, utcOffset, stores, reply, history>>

\* os.remove(file_path) leaves a coroutine that holds the file open for
\* writing with a file that has no name any more (POSIX)
Unlinked(q, channel_id) ==
    IF q.op = "dataupload" /\ q.pc = "writing" /\ q.channel_id = channel_id
    THEN [q EXCEPT !.attached = FALSE]
    ELSE q

\* variant: the DELETE of the channel_stats row is left out
datadelete_file_only(r) ==
    /\ req[r].op = "datadelete" /\ req[r].pc = "deferred"
    /\ LET channel_id == req[r].channel_id
       IN  IF ~os_path_exists(files, channel_id)
           THEN /\ reply' = Message(channel_id, "not_found", <<>>, 0)
                /\ req' = [req EXCEPT ![r] = Idle]
                /\ UNCHANGED <<files, kb_saved>>
           ELSE /\ files' = Drop(files, channel_id)
                /\ kb_saved' = [kb_saved EXCEPT ![channel_id] = NoWrite]
                /\ reply' = Message(channel_id, "deleted", <<>>, 0)
                /\ req' = [x \in Reqs |->
                              IF x = r THEN Idle ELSE Unlinked(req[x], channel_id)]
    /\ UNCHANGED <<now, utcOffset, channel_stats, question_history, user_context,
                   debug_data, ops, appended, recorded_at>>

\* variant: the DELETE of the channel_stats row runs before the file is
\* looked for
datadelete_row_first(r) ==
    /\ req[r].op = "datadelete" /\ req[r].pc = "deferred"
    /\ LET channel_id == req[r].channel_id
       IN  /\ channel_stats' = Drop(channel_stats, channel_id)
           /\ IF ~os_path_exists(files, channel_id)
              THEN /\ reply' = Message(channel_id, "not_found", <<>>, 0)
                   /\ req' = [req EXCEPT ![r] = Idle]
                   /\ UNCHANGED <<files, kb_saved>>
              ELSE /\ files' = Drop(files, channel_id)
                   /\ kb_saved' = [kb_saved EXCEPT ![channel_id] = NoWrite]
                   /\ reply' = Message(channel_id, "deleted", <<>>, 0)
                   /\ req' = [x \in Reqs |->
                                 IF x = r THEN Idle
                                 ELSE Unlinked(req[x], channel_id)]
    /\ UNCHANGED <<now, utcOffset, question_history, user_context, debug_data,
                   ops, appended, recorded_at>>

\* the body of /datadelete: nothing suspends between os.path.exists, os.remove
\* and the commit of the DELETE
datadelete(r) ==
    /\ req[r].op = "datadelete" /\ req[r].pc = "deferred"
    /\ LET channel_id == req[r].channel_id
       IN  IF ~os_path_exists(files, channel_id)
           THEN /\ reply' = Message(channel_id, "not_found", <<>>, 0)
                /\ req' = [req EXCEPT ![r] = Idle]
                /\ UNCHANGED <<files, channel_stats, kb_saved>>
           ELSE /\ files' = Drop(files, channel_id)
                /\ channel_stats' = Drop(channel_stats, channel_id)
                /\ kb_saved' = [kb_saved EXCEPT ![channel_id] = NoWrite]
                /\ reply' = Message(channel_id, "deleted", <<>>, 0)
                /\ req' = [x \in Reqs |->
                              IF x = r THEN Idle ELSE Unlinked(req[x], channel_id)]
    /\ UNCHANGED <<now, utcOffset, question_history, user_context, debug_data,
                   ops, appended, recorded_at>>

\* os.remove raises (nothing is deleted) or sqlite3 raises (the file is gone,
\* the row stays): the except branch sends the error
datadelete_fails(r, removed) ==
    /\ req[r].op = "datadelete" /\ req[r].pc = "deferred"
    /\ os_path_exists(files, req[r].channel_id)
    /\ IF removed
       THEN /\ files' = Drop(files, req[r].channel_id)
            /\ kb_saved' = [kb_saved EXCEPT ![req[r].channel_id] = NoWrite]
            /\ req' = [x \in Reqs |->
                          IF x = r THEN Idle
                          ELSE Unlinked(req[x], req[r].channel_id)]
       ELSE /\ req' = [req EXCEPT ![r] = Idle]
            /\ UNCHANGED <<files, kb_saved>>
    /\ reply' = Message(req[r].channel_id, "delete_error",
                        IF removed THEN SqliteErrorText ELSE OSErrorText, 0)
    /\ UNCHANGED <<now, utcOffset, channel_stats, question_history, user_context,
                   debug_data, ops, appended, recorded_at>>

\* /dataview up to get_channel_data's os.path.exists
dataview_start(r, channel_id) ==
    /\ req[r].pc = "idle"
    /\ ops' = ops + 1
    /\ LET q == [Idle EXCEPT !.op = "dataview", !.channel_id = channel_id]
       IN  IF ~os_path_exists(files, channel_id)
           THEN reply' = Message(channel_id, "no_data", <<>>, 0) /\ UNCHANGED req
           ELSE req' = [req EXCEPT ![r] = [q EXCEPT !.pc = "reading"]]
                /\ UNCHANGED reply
    /\ UNCHANGED <<now, utcOffset, stores, history>>

\* the read of the file, and the preview (or "No data found")
dataview_read(r) ==
    /\ req[r].op = "dataview" /\ req[r].pc = "reading"
    /\ LET content == get_channel_data(files, req[r].channel_id)
       IN  IF content = None
           THEN Finish(r, "no_data", <<>>)
           ELSE Finish(r, "viewed", content[1])
    /\ UNCHANGED <<now, utcOffset, stores, ops, history>>

----------------------------------------------------------------------------
(* StudyGuideBot: the answer *)

Fallback ==
 << "S", "o", "r", "r", "y", ",", " ", "I", "'", "m", " ", "h", "a", "v",
    "i", "n", "g", " ", "t", "r", "o", "u", "b", "l", "e", " ", "a", "c",
    "c", "e", "s", "s", "i", "n", "g", " ", "m", "y", " ", "A", "I", " ",
    "s", "e", "r", "v", "i", "c", "e", " ", "r", "i", "g", "h", "t", " ",
    "n", "o", "w", ".", " ", "P", "l", "e", "a", "s", "e", " ", "t", "r",
    "y", " ", "a", "g", "a", "i", "n", " ", "l", "a", "t", "e", "r", "!" >>

\* what the completion service may send as message.content
GatewayAnswers ==
    { <<" ", "D", "a", "m", "n", "!", " ", "o", "k", LF>> }

Upper == <<"A", "B", "C", "D", "E", "F", "G", "H", "I", "J", "K", "L", "M",
           "N", "O", "P", "Q", "R", "S", "T", "U", "V", "W", "X", "Y", "Z">>
Lower == <<"a", "b", "c", "d", "e", "f", "g", "h", "i", "j", "k", "l", "m",
           "n", "o", "p", "q", "r", "s", "t", "u", "v", "w", "x", "y", "z">>

\* str.lower() of one character
lower(ch) ==
    IF \E i \in 1..Len(Upper) : Upper[i] = ch
    THEN Lower[CHOOSE i \in 1..Len(Upper) : Upper[i] = ch]
    ELSE ch

IsAlpha(ch) == \E i \in 1..Len(Upper) : Upper[i] = ch \/ Lower[i] = ch

\* str.split(): the maximal runs of non-whitespace characters
RECURSIVE split(_)
split(s) ==
    LET t == lstrip(s)
        n == IF \E i \in 1..Len(t) : t[i] \in Whitespace
             THEN (CHOOSE i \in 1..Len(t) :
                      /\ t[i] \in Whitespace
                      /\ \A j \in 1..(i - 1) : t[j] \notin Whitespace) - 1
             ELSE Len(t)
    IN  IF t = <<>> THEN <<>>
        ELSE <<SubSeq(t, 1, n)>> \o split(SubSeq(t, n + 1, Len(t)))

\* ' '.join(words)
RECURSIVE join(_)
join(words) ==
    IF words = <<>> THEN <<>>
    ELSE IF Len(words) = 1 THEN words[1]
    ELSE words[1] \o <<" ">> \o join(Tail(words))

\* re.sub(r'[^a-zA-Z]', '', word.lower())
clean_word(word) == SelectSeq([i \in 1..Len(word) |-> lower(word[i])], IsAlpha)

profanity_words ==
    { <<"f", "u", "c", "k">>, <<"s", "h", "i", "t">>, <<"d", "a", "m", "n">>,
      <<"b", "i", "t", "c", "h">>, <<"a", "s", "s">>, <<"h", "e", "l", "l">>,
      <<"c", "r", "a", "p">> }

\* variant: the mask is as long as the matched word, not as the token
filter_profanity_matched(text) ==
    LET words == split(text)
    IN  join([i \in 1..Len(words) |->
                 IF clean_word(words[i]) \in profanity_words
                 THEN [k \in 1..Len(clean_word(words[i])) |-> "*"]
                 ELSE words[i]])

filter_profanity(text) ==
    LET words == split(text)
    IN  join([i \in 1..Len(words) |->
                 IF clean_word(words[i]) \in profanity_words
                 THEN [k \in 1..Len(words[i]) |-> "*"]
                 ELSE words[i]])

ContextLimit == 5    \* add_user_context keeps the last 5 questions
PromptContext == 3   \* ask_groq quotes the last 3 of them
Cooldown == 5        \* is_rate_limited: seconds between two questions

Last(s, n) == IF Len(s) > n THEN SubSeq(s, Len(s) - n + 1, Len(s)) ELSE s

\* ', '.join(recent_questions)
RECURSIVE comma_join(_)
comma_join(words) ==
    IF words = <<>> THEN <<>>
    ELSE IF Len(words) = 1 THEN <<words[1]>>
    ELSE <<words[1], ", ">> \o comma_join(Tail(words))

\* the fixed parts of ask_groq's prompt, each one element of the text
PromptHead ==
    <<"Act as a helpful study guide bot for the Sunnie Study Cafe Discord server. \nYou should be friendly, concise, and helpful. Answer based on the provided channel data.\n\nChannel Knowledge Base:\n">>
ContextLabel == "Recent conversation context: "
QuestionLabel == "Current Question: "
PromptTail ==
    <<"\n\nInstructions:\n- If the answer is directly in the knowledge base, use that information\n- If not directly available, use reasoning and general knowledge to provide a helpful answer\n- Keep responses concise but complete\n- Use a friendly, encouraging tone\n- Support markdown formatting in your response\n- If you cannot answer at all, politely explain why\n\nAnswer:">>

\* variant: the context line quotes the whole context
build_prompt_whole(question, channel_data, context) ==
    LET context_text ==
            IF context # <<>>
            THEN <<ContextLabel>> \o comma_join(context) \o <<"\n\n">>
            ELSE <<>>
    IN  PromptHead \o channel_data \o <<"\n\n">> \o context_text
            \o <<QuestionLabel, question>> \o PromptTail

\* ask_groq's prompt: the knowledge base, the context line (none for an
\* empty context) and the question inside the fixed text
build_prompt(question, channel_data, context) ==
    LET context_text ==
            IF context # <<>>
            THEN <<ContextLabel>> \o comma_join(Last(context, PromptContext))
                     \o <<"\n\n">>
            ELSE <<>>
    IN  PromptHead \o channel_data \o <<"\n\n">> \o context_text
            \o <<QuestionLabel, question>> \o PromptTail

\* get_user_context: self.user_context.get(user_id, []) hands out the stored
\* list object itself, or a new empty list
get_user_context(ctx, user_id) ==
    IF user_id \in DOMAIN ctx THEN [live |-> TRUE, val |-> <<>>]
    ELSE [live |-> FALSE, val |-> <<>>]

\* the list a reference handed out by get_user_context denotes now
Deref(ref, ctx, user_id) == IF ref.live THEN ctx[user_id] ELSE ref.val

\* variant: the slice keeps the oldest five questions ([:5] for [-5:])
add_user_context_oldest(ctx, user_id, question) ==
    LET list == (IF user_id \in DOMAIN ctx THEN ctx[user_id] ELSE <<>>)
                    \o <<question>>
    IN  Put(ctx, user_id,
            IF Len(list) > ContextLimit THEN SubSeq(list, 1, ContextLimit)
            ELSE list)

add_user_context(ctx, user_id, question) ==
    LET list == (IF user_id \in DOMAIN ctx THEN ctx[user_id] ELSE <<>>)
                    \o <<question>>
    IN  Put(ctx, user_id,
            IF Len(list) > ContextLimit THEN Last(list, ContextLimit) ELSE list)

\* is_rate_limited: the user's newest question_history row, read back with
\* datetime.fromisoformat, against datetime.now()
is_rate_limited(rows, user_id) ==
    LET mine == {i \in 1..Len(rows) : rows[i].user_id = user_id}
    IN  /\ mine # {}
        /\ LET newest == CHOOSE t \in {rows[i].timestamp : i \in mine} :
                             \A i \in mine : rows[i].timestamp <= t
               time_diff == datetime_now - newest * TicksPerSec
           IN  time_diff < Cooldown * TicksPerSec

\* log_question: the INSERT into question_history and the debug_data entry
log_question_row(channel_id, user_id, question, answer) ==
    [channel_id |-> channel_id, user_id |-> user_id, question |-> question,
     answer |-> answer, timestamp |-> CURRENT_TIMESTAMP]

\* variant: the entry does not name the user who asked
log_question_debug_anonymous(user_id, question, answer) ==
    [question |-> question, answer |-> answer, timestamp |-> datetime_now,
     user_id |-> 0]

log_question_debug(user_id, question, answer) ==
    [question |-> question, answer |-> answer, timestamp |-> datetime_now,
     user_id |-> user_id]

----------------------------------------------------------------------------
(* UserCommands.ask *)

\* /ask arrives and defers its response
ask_start(r, channel_id, user_id, question) ==
    /\ req[r].pc = "idle"
    /\ ops' = ops + 1
    /\ req' = [req EXCEPT ![r] = [Idle EXCEPT !.op = "ask", !.pc = "deferred",
                                       !.channel_id = channel_id,
                                       !.user_id = user_id,
                                       !.question = question]]
    /\ UNCHANGED <<now, utcOffset, stores, reply, history>>

\* get_channel_data's os.path.exists; with no file the coroutine goes on,
\* unsuspended, to the "No Knowledge Base" embed
ask_exists(r) ==
    /\ req[r].op = "ask" /\ req[r].pc = "deferred"
    /\ IF ~os_path_exists(files, req[r].channel_id)
       THEN Finish(r, "no_kb", <<>>)
       ELSE req' = [req EXCEPT ![r].pc = "reading"] /\ UNCHANGED reply
    /\ UNCHANGED <<now, utcOffset, stores, ops, history>>

\* the aiofiles open and read; a file deleted since os.path.exists makes
\* get_channel_data return None
ask_read(r) ==
    /\ req[r].op = "ask" /\ req[r].pc = "reading"
    /\ LET channel_data == get_channel_data(files, req[r].channel_id)
       IN  IF channel_data = None
           THEN Finish(r, "no_kb", <<>>)
           ELSE req' = [req EXCEPT ![r].channel_data = channel_data,
                                   ![r].pc = "checking"]
                /\ UNCHANGED reply
    /\ UNCHANGED <<now, utcOffset, stores, ops, history>>

\* variant: the question is counted before the rate limit is looked at
ask_check_counted(r) ==
    /\ req[r].op = "ask" /\ req[r].pc = "checking"
    /\ channel_stats' = update_channel_stats(channel_stats, req[r].channel_id, None)
    /\ IF is_rate_limited(question_history, req[r].user_id)
       THEN Finish(r, "rate_limited", <<>>)
       ELSE req' = [req EXCEPT
                        ![r].user_context =
                            Some(get_user_context(user_context, req[r].user_id)),
                        ![r].pc = "thinking"]
            /\ UNCHANGED reply
    /\ UNCHANGED <<now, utcOffset, files, question_history, user_context,
                   debug_data, ops, history>>

\* is_rate_limited, get_user_context, and the start of the "Thinking..." send
ask_check(r) ==
    /\ req[r].op = "ask" /\ req[r].pc = "checking"
    /\ IF is_rate_limited(question_history, req[r].user_id)
       THEN Finish(r, "rate_limited", <<>>)
       ELSE req' = [req EXCEPT
                        ![r].user_context =
                            Some(get_user_context(user_context, req[r].user_id)),
                        ![r].pc = "thinking"]
            /\ UNCHANGED reply
    /\ UNCHANGED <<now, utcOffset, stores, ops, history>>

\* "Thinking..." is sent; ask_groq builds the prompt and sends the request
ask_prompt(r) ==
    /\ req[r].op = "ask" /\ req[r].pc = "thinking"
    /\ UNCHANGED reply
    /\ req' = [req EXCEPT
                   ![r].prompt =
                       Some(build_prompt(req[r].question, req[r].channel_data[1],
                                         Deref(req[r].user_context[1], user_context,
                                               req[r].user_id))),
                   ![r].user_context = None,
                   ![r].gateway_calls = @ + 1,
                   ![r].pc = "waiting"]
    /\ UNCHANGED <<now, utcOffset, stores, ops, history>>

\* the completion arrives: ask_groq strips and filters it
ask_answer(r, content) ==
    /\ req[r].op = "ask" /\ req[r].pc = "waiting"
    /\ req' = [req EXCEPT ![r].content = content,
                          ![r].answer = filter_profanity(strip(content)),
                          ![r].prompt = None,
                          ![r].pc = "editing"]
    /\ UNCHANGED <<now, utcOffset, stores, reply, ops, history>>

\* the completion request raises: ask_groq returns the fallback text
ask_gateway_fails(r) ==
    /\ req[r].op = "ask" /\ req[r].pc = "waiting"
    /\ req' = [req EXCEPT ![r].answer = Fallback,
                          ![r].gateway_failed = TRUE,
                          ![r].prompt = None,
                          ![r].pc = "editing"]
    /\ UNCHANGED <<now, utcOffset, stores, reply, ops, history>>

\* a reference another coroutine got from get_user_context, after
\* add_user_context(user_id, question): the append is in place, and a list
\* grown past ContextLimit is then replaced in the dictionary by a new one,
\* which leaves the holder of the reference with the old, longer list
Alias(q, user_id, question) ==
    IF /\ q.op = "ask" /\ q.pc = "thinking" /\ q.user_id = user_id
       /\ q.user_context[1].live
       /\ Len(user_context[user_id]) + 1 > ContextLimit
    THEN [q EXCEPT !.user_context =
              Some([live |-> FALSE,
                    val |-> user_context[user_id] \o <<question>>])]
    ELSE q

\* variant: the answer is not sent before the recording
ask_edit_unsent(r) ==
    /\ req[r].op = "ask" /\ req[r].pc = "editing"
    /\ req' = [req EXCEPT ![r].pc = "recording"]
    /\ UNCHANGED <<now, utcOffset, stores, reply, ops, history>>

\* typing_message.edit: the answer embed replaces "Thinking..."
ask_edit(r) ==
    /\ req[r].op = "ask" /\ req[r].pc = "editing"
    /\ reply' = Message(req[r].channel_id, "answer", req[r].answer,
                        req[r].gateway_calls)
    /\ req' = [req EXCEPT ![r].pc = "recording"]
    /\ UNCHANGED <<now, utcOffset, stores, ops, history>>

\* typing_message.edit raises: the except branch sends the exception's text
ask_edit_fails(r) ==
    /\ req[r].op = "ask" /\ req[r].pc = "editing"
    /\ Finish(r, "ask_error", DeliveryErrorText)
    /\ UNCHANGED <<now, utcOffset, stores, ops, history>>

\* add_user_context, update_channel_stats(channel_id) and log_question, with
\* nothing suspending in between
ask_record(r) ==
    /\ req[r].op = "ask" /\ req[r].pc = "recording"
    /\ user_context' = add_user_context(user_context, req[r].user_id,
                                        req[r].question)
    /\ channel_stats' = update_channel_stats(channel_stats, req[r].channel_id, None)
    /\ question_history' =
           Append(question_history,
                  log_question_row(req[r].channel_id, req[r].user_id,
                                   req[r].question, req[r].answer))
    /\ debug_data' = Put(debug_data, req[r].channel_id,
                         log_question_debug(req[r].user_id, req[r].question,
                                            req[r].answer))
    /\ req' = [x \in Reqs |->
                  IF x = r THEN Idle
                  ELSE Alias(req[x], req[r].user_id, req[r].question)]
    /\ appended' = [appended EXCEPT ![req[r].user_id] = Append(@, req[r].question)]
    /\ recorded_at' = Append(recorded_at, now)
    /\ UNCHANGED <<now, utcOffset, files, reply, ops, kb_saved>>

\* sqlite3 raises in update_channel_stats (counted = FALSE: the question is
\* in the context and nothing else is written) or in log_question's INSERT
\* (counted = TRUE: the counter is incremented too); the except branch sends
\* the exception's text
ask_record_fails(r, counted) ==
    /\ req[r].op = "ask" /\ req[r].pc = "recording"
    /\ user_context' = add_user_context(user_context, req[r].user_id,
                                        req[r].question)
    /\ channel_stats' = IF counted
                        THEN update_channel_stats(channel_stats,
                                                  req[r].channel_id, None)
                        ELSE channel_stats
    /\ reply' = Message(req[r].channel_id, "ask_error", SqliteErrorText,
                        req[r].gateway_calls)
    /\ req' = [x \in Reqs |->
                  IF x = r THEN Idle
                  ELSE Alias(req[x], req[r].user_id, req[r].question)]
    /\ appended' = [appended EXCEPT ![req[r].user_id] = Append(@, req[r].question)]
    /\ UNCHANGED <<now, utcOffset, files, question_history, debug_data, ops,
                   recorded_at, kb_saved>>

----------------------------------------------------------------------------
(* The clock *)

Tick ==
    /\ now' = now + 1
    /\ UNCHANGED <<utcOffset, stores, req, reply, ops, history>>

----------------------------------------------------------------------------
(* The bot on a host whose clock is UTC, its storage working: commands on
   any channels by any users, as many in flight as there are coroutines *)

\* a new command takes the first free coroutine
Free(r) == req[r].pc = "idle" /\ \A x \in Reqs : req[x].pc = "idle" => r <= x

UploadTexts == { <<"a">>, <<"b", " ">> }
AskQuestions == {"q1"}

Next ==
    \/ \E r \in Reqs, c \in Channels, u \in Users, q \in AskQuestions :
           ops < MaxOps /\ Free(r) /\ ask_start(r, c, u, q)
    \/ \E r \in Reqs : ask_exists(r)
    \/ \E r \in Reqs : ask_read(r)
    \/ \E r \in Reqs : ask_check(r)
    \/ \E r \in Reqs : ask_prompt(r)
    \/ \E r \in Reqs, content \in GatewayAnswers : ask_answer(r, content)
    \/ \E r \in Reqs : ask_gateway_fails(r)
    \/ \E r \in Reqs : ask_edit(r)
    \/ \E r \in Reqs : ask_record(r)
    \/ \E r \in Reqs, c \in Channels, t \in UploadTexts :
           ops < MaxOps /\ Free(r) /\ dataupload_open(r, c, t)
    \/ \E r \in Reqs : dataupload_write(r)
    \/ \E r \in Reqs : dataupload_stats(r)
    \/ \E r \in Reqs, c \in Channels :
           ops < MaxOps /\ Free(r) /\ datadelete_start(r, c)
    \/ \E r \in Reqs : datadelete(r)
    \/ now < MaxTime /\ Tick

\* the bot starts on a host whose local time is UTC
InitUtc == Init /\ utcOffset = 0

Spec == InitUtc /\ [][Next]_vars

----------------------------------------------------------------------------
(* The knowledge-base store alone: one command at a time, uploads of any
   text of up to MaxLen characters, deletions and views of one channel, with
   storage that can fail *)

One == {1}
StoreChannels == {101}
StoreTexts == BoundedSeq(Chars, MaxLen)

NextStore ==
    \/ \E r \in One, c \in StoreChannels :
           /\ ops < MaxStoreOps /\ req[r].pc = "idle"
           /\ \E t \in StoreTexts : dataupload_open(r, c, t)
    \/ \E r \in One, c \in StoreChannels :
           /\ ops < MaxStoreOps /\ req[r].pc = "idle"
           /\ \E t \in StoreTexts : dataupload_open_fails(r, c, t)
    \/ \E r \in One, c \in StoreChannels :
           ops < MaxStoreOps /\ dataupload_fails(r, c)
    \/ \E r \in One : dataupload_write(r)
    \/ \E r \in One : dataupload_write_fails(r)
    \/ \E r \in One : dataupload_stats(r)
    \/ \E r \in One : dataupload_stats_fails(r)
    \/ \E r \in One, c \in StoreChannels :
           ops < MaxStoreOps /\ datadelete_start(r, c)
    \/ \E r \in One : datadelete(r)
    \/ \E r \in One, removed \in BOOLEAN : datadelete_fails(r, removed)
    \/ \E r \in One, c \in StoreChannels :
           ops < MaxStoreOps /\ dataview_start(r, c)
    \/ \E r \in One : dataview_read(r)

SpecStore == InitUtc /\ [][NextStore]_vars

----------------------------------------------------------------------------
(* The statistics row over time: one command at a time, uploads, questions
   and deletions, while the clock passes a second *)

NextStats ==
    \/ \E r \in One, c \in Channels, t \in UploadTexts :
           ops < MaxStatsOps /\ dataupload_open(r, c, t)
    \/ \E r \in One : dataupload_write(r)
    \/ \E r \in One : dataupload_stats(r)
    \/ \E r \in One, c \in Channels :
           ops < MaxStatsOps /\ datadelete_start(r, c)
    \/ \E r \in One : datadelete(r)
    \/ \E r \in One, c \in Channels, u \in Users, q \in AskQuestions :
           ops < MaxStatsOps /\ ask_start(r, c, u, q)
    \/ \E r \in One : ask_exists(r)
    \/ \E r \in One : ask_read(r)
    \/ \E r \in One : ask_check(r)
    \/ \E r \in One : ask_prompt(r)
    \/ \E r \in One, content \in GatewayAnswers : ask_answer(r, content)
    \/ \E r \in One : ask_gateway_fails(r)
    \/ \E r \in One : ask_edit(r)
    \/ \E r \in One : ask_record(r)
    \/ now < MaxStatsTime /\ Tick

SpecStats == InitUtc /\ [][NextStats]_vars

----------------------------------------------------------------------------
(* The rate limit: the bot started over the files and the database an
   earlier run left (setup_database creates the tables only IF NOT EXISTS,
   setup_folders the folders only when missing), every channel with a
   knowledge base; one /ask at a time, in any time zone, over more than one
   cooldown *)

InitStored ==
    /\ now = 0
    /\ utcOffset \in UtcOffsets
    /\ files = [c \in Channels |-> <<"a">>]
    /\ channel_stats =
           [c \in Channels |->
               [questions_answered |-> 0, data_size |-> 1,
                last_updated |-> Some(utcOffset * TicksPerSec),
                created_at |-> 0]]
    /\ question_history = <<>>
    /\ user_context = <<>>
    /\ debug_data = <<>>
    /\ req = [r \in Reqs |-> Idle]
    /\ reply = NoReply
    /\ ops = 0
    /\ appended = [u \in Users |-> <<>>]
    /\ recorded_at = <<>>
    /\ kb_saved = [c \in Channels |-> NoWrite]

NextRate ==
    \/ \E r \in One, c \in Channels, u \in Users, q \in AskQuestions :
           ops < MaxRateOps /\ ask_start(r, c, u, q)
    \/ \E r \in One : ask_exists(r)
    \/ \E r \in One : ask_read(r)
    \/ \E r \in One : ask_check(r)
    \/ \E r \in One : ask_prompt(r)
    \/ \E r \in One, content \in GatewayAnswers : ask_answer(r, content)
    \/ \E r \in One : ask_gateway_fails(r)
    \/ \E r \in One : ask_edit(r)
    \/ \E r \in One : ask_record(r)
    \/ now < MaxRateTime /\ Tick

SpecRate == InitStored /\ [][NextRate]_vars

----------------------------------------------------------------------------
(* The user context alone: add_user_context called with any users and
   questions *)

context_append(user_id, question) ==
    /\ user_context' = add_user_context(user_context, user_id, question)
    /\ appended' = [appended EXCEPT ![user_id] = Append(@, question)]
    /\ UNCHANGED <<now, utcOffset, files, channel_stats, question_history,
                   debug_data, req, reply, ops, recorded_at, kb_saved>>

RECURSIVE Total(_, _)
Total(f, S) ==
    IF S = {} THEN 0
    ELSE LET x == CHOOSE x \in S : TRUE IN Len(f[x]) + Total(f, S \ {x})

NextCtx ==
    \E u \in Users, q \in Questions :
        Total(appended, Users) < MaxAppends /\ context_append(u, q)

SpecCtx == InitUtc /\ [][NextCtx]_vars

----------------------------------------------------------------------------
(* The profanity filter: one question in a channel with a knowledge base,
   answered by the completion service with any short text *)

InitStoredUtc == InitStored /\ utcOffset = 0

FilterChars == {"a", "s", "S", "!", " ", LF}
FilterTexts == BoundedSeq(FilterChars, MaxFilterLen) \cup GatewayAnswers

NextFilter ==
    \/ \E r \in One, c \in StoreChannels, u \in Users, q \in AskQuestions :
           ops = 0 /\ ask_start(r, c, u, q)
    \/ \E r \in One : ask_exists(r)
    \/ \E r \in One : ask_read(r)
    \/ \E r \in One : ask_check(r)
    \/ \E r \in One : ask_prompt(r)
    \/ \E r \in One :
           req[r].pc = "waiting" /\ \E content \in FilterTexts : ask_answer(r, content)
    \/ \E r \in One : ask_edit(r)
    \/ \E r \in One : ask_record(r)

SpecFilter == InitStoredUtc /\ [][NextFilter]_vars

----------------------------------------------------------------------------
(* The prompt: a channel with a knowledge base in which one user has been
   answered some questions, one every Cooldown seconds; then one more
   question, by that user or another *)

PromptTexts == { <<"a">>, <<"a", LF, "b", " ">> }
Asker == CHOOSE u \in Users : TRUE
EarlierAnswer == filter_profanity(strip(CHOOSE a \in GatewayAnswers : TRUE))

InitAsked ==
    \E kb \in PromptTexts, asked \in BoundedSeq(Questions, MaxAsked) :
        LET n == Len(asked)
            at(i) == (i - 1) * Cooldown
        IN  /\ now = n * Cooldown * TicksPerSec
            /\ utcOffset = 0
            /\ files = [c \in StoreChannels |-> kb]
            /\ channel_stats =
                   [c \in StoreChannels |->
                       [questions_answered |-> n, data_size |-> Len(kb),
                        last_updated |->
                            Some(IF n = 0 THEN 0 ELSE at(n) * TicksPerSec),
                        created_at |-> 0]]
            /\ question_history =
                   [i \in 1..n |->
                       [channel_id |-> CHOOSE c \in StoreChannels : TRUE,
                        user_id |-> Asker, question |-> asked[i],
                        answer |-> EarlierAnswer, timestamp |-> at(i)]]
            /\ user_context =
                   [u \in (IF n = 0 THEN {} ELSE {Asker}) |->
                       Last(asked, ContextLimit)]
            /\ debug_data =
                   [c \in (IF n = 0 THEN {} ELSE StoreChannels) |->
                       [question |-> asked[n], answer |-> EarlierAnswer,
                        timestamp |-> at(n) * TicksPerSec, user_id |-> Asker]]
            /\ req = [r \in Reqs |-> Idle]
            /\ reply = NoReply
            /\ ops = 0
            /\ appended = [u \in Users |-> IF u = Asker THEN asked ELSE <<>>]
            /\ recorded_at = [i \in 1..n |-> at(i) * TicksPerSec]
            /\ kb_saved = [c \in Channels |-> NoWrite]

NextPrompt ==
    \/ \E r \in One, c \in StoreChannels, u \in Users, q \in Questions :
           ops < MaxPromptOps /\ ask_start(r, c, u, q)
    \/ \E r \in One : ask_exists(r)
    \/ \E r \in One : ask_read(r)
    \/ \E r \in One : ask_check(r)
    \/ \E r \in One : ask_prompt(r)
    \/ \E r \in One, content \in GatewayAnswers : ask_answer(r, content)
    \/ \E r \in One : ask_edit(r)
    \/ \E r \in One : ask_record(r)

SpecPrompt == InitAsked /\ [][NextPrompt]_vars

----------------------------------------------------------------------------
(* Failures while answering: one /ask at a time in channels with a knowledge
   base, where the completion request, the edit of the answer and the
   sqlite3 statements of the recording may raise *)

NextRecord ==
    \/ \E r \in One, c \in Channels, u \in Users, q \in AskQuestions :
           ops < MaxRecordOps /\ ask_start(r, c, u, q)
    \/ \E r \in One : ask_exists(r)
    \/ \E r \in One : ask_read(r)
    \/ \E r \in One : ask_check(r)
    \/ \E r \in One : ask_prompt(r)
    \/ \E r \in One, content \in GatewayAnswers : ask_answer(r, content)
    \/ \E r \in One : ask_gateway_fails(r)
    \/ \E r \in One : ask_edit(r)
    \/ \E r \in One : ask_edit_fails(r)
    \/ \E r \in One : ask_record(r)
    \/ \E r \in One, counted \in BOOLEAN : ask_record_fails(r, counted)

SpecRecord == InitStoredUtc /\ [][NextRecord]_vars

----------------------------------------------------------------------------
(* Properties *)

\* C1: an /ask in a channel that has no knowledge-base file, when ask looks
\* for it (os.path.exists) or reads it, ends with the "No Knowledge Base"
\* rejection, has made no gateway call, and leaves the user's context, the
\* statistics rows, the question records and the debug data as they were.
C1_NoKnowledgeBaseRejected ==
    [][\A r \in Reqs :
           (/\ req[r].op = "ask"
            /\ req[r].pc \in {"deferred", "reading"}
            /\ req'[r] # req[r]
            /\ req[r].channel_id \notin DOMAIN files)
           => /\ req'[r] = Idle
              /\ reply' = Message(req[r].channel_id, "no_kb", <<>>, 0)
              /\ UNCHANGED <<user_context, channel_stats, question_history,
                             debug_data>>]_vars

\* a channel without a file was asked in and the asker was turned away, while
\* another channel's question had been recorded
C1_Witness ==
    /\ reply.kind = "no_kb"
    /\ reply.channel_id \notin DOMAIN files
    /\ reply.gateway_calls = 0
    /\ question_history # <<>>
    /\ user_context # <<>>

\* C2 (as stated): an /ask whose gateway call fails answers with the fixed
\* fallback text and neither appends to the user's context, nor increments
\* the channel's counter, nor adds a question record.
C2_GatewayFailureRecordsNothing ==
    [][\A r \in Reqs :
           (/\ req[r].op = "ask"
            /\ req[r].gateway_failed
            /\ req'[r].op # "ask")
           => /\ req[r].answer = Fallback
              /\ UNCHANGED <<user_context, channel_stats, question_history>>]_vars

\* C3: an /ask that is turned away as rate limited, ending without an answer
\* and with the rate-limit message, has made no gateway call and changes no
\* context, no counter, no question record and no debug data.
C3_RateLimitedChangesNothing ==
    [][\A r \in Reqs :
           (/\ req[r].op = "ask"
            /\ req[r].pc # "recording"
            /\ req'[r] = Idle
            /\ reply'.kind = "rate_limited")
           => /\ req[r].pc = "checking"
              /\ req[r].gateway_calls = 0
              /\ reply' = Message(req[r].channel_id, "rate_limited", <<>>, 0)
              /\ UNCHANGED <<user_context, channel_stats, question_history,
                             debug_data>>]_vars

\* a user with a recorded question asked again and was turned away
C3_Witness ==
    /\ reply.kind = "rate_limited"
    /\ reply.gateway_calls = 0
    /\ Len(question_history) = 1
    /\ \E u \in DOMAIN user_context : Len(user_context[u]) = 1
    /\ \E c \in DOMAIN channel_stats : channel_stats[c].questions_answered = 1

\* C4 (as stated): is_rate_limited(user) is true exactly when the user has a
\* question record made strictly less than 5 seconds before the current
\* time.
C4_LimitedExactlyWithinCooldown ==
    \A u \in Users :
        is_rate_limited(question_history, u)
        <=> \E i \in 1..Len(question_history) :
                /\ question_history[i].user_id = u
                /\ now - recorded_at[i] < 5 * TicksPerSec

\* C5: after n questions were appended for a user, the user's context is the
\* last min(n, 5) of them, oldest first; it is never longer than 5, and a
\* user nothing was appended for has no context.
C5_ContextIsLastFive ==
    \A u \in Users :
        LET n == Len(appended[u])
            k == IF n < 5 THEN n ELSE 5
            got == IF u \in DOMAIN user_context THEN user_context[u] ELSE <<>>
        IN  /\ got = [i \in 1..k |-> appended[u][n - k + i]]
            /\ Len(got) <= 5
            /\ (n = 0 <=> u \notin DOMAIN user_context)

\* seven questions were appended for one user and the oldest two, which
\* differ from the ones that took their places, are gone
C5_Witness ==
    \E u \in Users :
        /\ Len(appended[u]) = 7
        /\ u \in DOMAIN user_context
        /\ user_context[u] = SubSeq(appended[u], 3, 7)
        /\ appended[u][1] # appended[u][3]
        /\ appended[u][2] # appended[u][4]

\* C6 (as stated): for every channel with a statistics row, questions_answered
\* equals the number of question records of that channel.
C6_CounterEqualsRecords ==
    \A c \in DOMAIN channel_stats :
        channel_stats[c].questions_answered =
            Cardinality({i \in 1..Len(question_history) :
                             question_history[i].channel_id = c})

\* C7: a /datadelete that reports success leaves the channel without a
\* knowledge base and without a statistics row, and leaves the texts and
\* rows of all other channels as they were.
C7_DeleteRemovesTextAndRow ==
    [][\A r \in Reqs :
           (/\ req[r].op = "datadelete"
            /\ req'[r] = Idle
            /\ reply'.kind = "deleted")
           => LET c == req[r].channel_id
              IN  /\ reply'.channel_id = c
                  /\ c \notin DOMAIN files'
                  /\ get_channel_data(files', c) = None
                  /\ c \notin DOMAIN channel_stats'
                  /\ \A d \in Channels \ {c} :
                         /\ d \in DOMAIN files' <=> d \in DOMAIN files
                         /\ d \in DOMAIN files => files'[d] = files[d]
                         /\ d \in DOMAIN channel_stats'
                                <=> d \in DOMAIN channel_stats
                         /\ d \in DOMAIN channel_stats
                                => channel_stats'[d] = channel_stats[d]]_vars

\* a channel's text and row were deleted while another channel has both
C7_Witness ==
    /\ reply.kind = "deleted"
    /\ reply.channel_id \notin DOMAIN files
    /\ reply.channel_id \notin DOMAIN channel_stats
    /\ \E d \in DOMAIN files :
           d # reply.channel_id /\ d \in DOMAIN channel_stats

\* C8: a /datadelete in a channel that has no knowledge-base file reports
\* "not found" and leaves the statistics rows (and the files) untouched.
C8_DeleteWithoutFileTouchesNothing ==
    [][\A r \in Reqs :
           (/\ req[r].op = "datadelete"
            /\ req[r].pc = "deferred"
            /\ req'[r] # req[r]
            /\ req[r].channel_id \notin DOMAIN files)
           => /\ req'[r] = Idle
              /\ reply' = Message(req[r].channel_id, "not_found", <<>>, 0)
              /\ UNCHANGED <<files, channel_stats>>]_vars

\* "not found" was reported for a channel that has a statistics row
C8_Witness ==
    /\ reply.kind = "not_found"
    /\ reply.channel_id \notin DOMAIN files
    /\ reply.channel_id \in DOMAIN channel_stats

\* C9 (as stated): the statistics update of an upload keeps the channel's
\* questions_answered (0 for a new row), changes only data_size and
\* last_updated of the row, and changes no other row.
C9_UploadChangesSizeAndTimeOnly ==
    [][\A r \in Reqs :
           (/\ req[r].op = "dataupload"
            /\ req[r].pc = "saving"
            /\ req'[r] = Idle
            /\ reply'.kind = "uploaded")
           => LET c == req[r].channel_id
              IN  /\ c \in DOMAIN channel_stats'
                  /\ channel_stats'[c].questions_answered =
                         IF c \in DOMAIN channel_stats
                         THEN channel_stats[c].questions_answered ELSE 0
                  /\ c \in DOMAIN channel_stats
                         => channel_stats'[c] =
                                [channel_stats[c] EXCEPT
                                     !.data_size = channel_stats'[c].data_size,
                                     !.last_updated =
                                         channel_stats'[c].last_updated]
                  /\ \A d \in Channels \ {c} :
                         /\ d \in DOMAIN channel_stats'
                                <=> d \in DOMAIN channel_stats
                         /\ d \in DOMAIN channel_stats
                                => channel_stats'[d] = channel_stats[d]]_vars

\* C10 (as stated): after a successful save of a text for a channel, with no
\* other write to the channel since, get_channel_data returns that text
\* trimmed; the text of the latest save is the one returned.
C10_SavedTextReadBack ==
    \A c \in Channels :
        kb_saved[c].saved
        => get_channel_data(files, c) = Some(strip(kb_saved[c].content))

\* C10 (amended): after a successful save of a text that contains no carriage
\* return, with no other write to the channel since, get_channel_data
\* returns that text trimmed; the text of the latest save is the one
\* returned.
C10_SavedTextWithoutCRReadBack ==
    \A c \in Channels :
        (/\ kb_saved[c].saved
         /\ \A i \in 1..Len(kb_saved[c].content) : kb_saved[c].content[i] # CR)
        => get_channel_data(files, c) = Some(strip(kb_saved[c].content))

\* a saved text with whitespace at both ends was read back and shown trimmed
C10_Witness ==
    \E c \in Channels :
        /\ kb_saved[c].saved
        /\ kb_saved[c].content = <<" ", "a", LF>>
        /\ reply = Message(c, "viewed", <<"a">>, 0)

\* C11: debug_data holds one entry per channel at most, and the entry of a
\* channel is the question, the answer and the user of the newest
\* question_history row of that channel; a channel without a row has no
\* entry.
C11_DebugIsNewestRecord ==
    \A c \in DOMAIN debug_data :
        LET mine == {i \in 1..Len(question_history) :
                         question_history[i].channel_id = c}
        IN  /\ mine # {}
            /\ LET newest == question_history[CHOOSE i \in mine :
                                                  \A j \in mine : j <= i]
               IN  /\ debug_data[c].question = newest.question
                   /\ debug_data[c].answer = newest.answer
                   /\ debug_data[c].user_id = newest.user_id

\* two users were answered in one channel and the entry names the second
C11_Witness ==
    \E c \in DOMAIN debug_data :
        /\ Len(question_history) = 2
        /\ question_history[1].channel_id = c
        /\ question_history[2].channel_id = c
        /\ question_history[1].user_id # question_history[2].user_id
        /\ debug_data[c].user_id = question_history[2].user_id
        /\ debug_data[c].answer = question_history[2].answer

\* C12: filter_profanity masks a whitespace-delimited token exactly when the
\* token without its non-alphabetic characters, lower-cased, is a disallowed
\* word; the mask has one "*" for every character of the token ("Damn!"
\* gives five), every other token is unchanged, and the tokens keep their
\* number and order.
C12_FilterMasksWholeTokens ==
    \A r \in Reqs :
        (req[r].op = "ask" /\ req[r].pc \in {"editing", "recording"}
            /\ ~req[r].gateway_failed)
        => LET tokens == split(strip(req[r].content))
               filtered == split(req[r].answer)
               letters(w) == SelectSeq(w, IsAlpha)
               word(w) == [i \in 1..Len(letters(w)) |-> lower(letters(w)[i])]
           IN  /\ Len(filtered) = Len(tokens)
               /\ \A i \in 1..Len(tokens) :
                      IF word(tokens[i]) \in profanity_words
                      THEN filtered[i] = [k \in 1..Len(tokens[i]) |-> "*"]
                      ELSE filtered[i] = tokens[i]

\* the completion " Damn! ok" was filtered to "***** ok"
C12_Witness ==
    \E r \in Reqs :
        /\ req[r].op = "ask" /\ req[r].pc = "recording"
        /\ req[r].content = <<" ", "D", "a", "m", "n", "!", " ", "o", "k", LF>>
        /\ req[r].answer = <<"*", "*", "*", "*", "*", " ", "o", "k">>
        /\ reply.kind = "answer" /\ reply.text = req[r].answer

\* C13: the prompt ask_groq builds contains the knowledge-base text as it
\* is and the question; when the user's context is not empty it contains one
\* context line, made of the last 3 questions of the context (all of them
\* when there are fewer) joined by commas, and it quotes no other question of
\* the context; when the context is empty it contains no context line.
C13_PromptQuotesLastThree ==
    \A r \in Reqs :
        (req[r].op = "ask" /\ req[r].pc = "waiting")
        => LET p == req[r].prompt[1]
               ctx == IF req[r].user_id \in DOMAIN user_context
                      THEN user_context[req[r].user_id] ELSE <<>>
               n == Len(ctx)
               k == IF n < 3 THEN n ELSE 3
               line == <<ContextLabel>>
                          \o [i \in 1..(2 * k - 1) |->
                                 IF i % 2 = 1 THEN ctx[n - k + (i + 1) \div 2]
                                 ELSE ", "]
                          \o <<"\n\n">>
               Contains(t) == \E i \in 0..(Len(p) - Len(t)) :
                                  SubSeq(p, i + 1, i + Len(t)) = t
           IN  /\ Contains(req[r].channel_data[1])
               /\ Contains(<<QuestionLabel, req[r].question>>)
               /\ n > 0 => Contains(line)
               /\ Cardinality({i \in 1..Len(p) : p[i] = ContextLabel})
                      = IF n > 0 THEN 1 ELSE 0
               /\ Cardinality({i \in 1..Len(p) : p[i] \in Questions}) = k + 1

\* a user with four questions in the context asked again: the prompt quotes
\* the last three, and the first, a different question, is left out
C13_Witness ==
    \E r \in Reqs :
        /\ req[r].op = "ask" /\ req[r].pc = "waiting"
        /\ req[r].user_id \in DOMAIN user_context
        /\ LET ctx == user_context[req[r].user_id]
               p == req[r].prompt[1]
           IN  /\ Len(ctx) = 4
               /\ ctx[1] \notin {ctx[2], ctx[3], ctx[4], req[r].question}
               /\ \E i \in 1..Len(p) :
                      SubSeq(p, i, i + 6) =
                          <<ContextLabel, ctx[2], ", ", ctx[3], ", ", ctx[4],
                            "\n\n">>
               /\ \A i \in 1..Len(p) : p[i] # ctx[1]
               /\ req[r].channel_data[1] = <<"a", LF, "b">>

\* C14: when a write of the recording step of an /ask whose gateway call
\* succeeded fails, the filtered answer has been sent to the user: it is the
\* message in the chat when the failure is reported.
C14_AnswerSentBeforeRecording ==
    [][\A r \in Reqs :
           (/\ req[r].op = "ask"
            /\ req[r].pc = "recording"
            /\ ~req[r].gateway_failed
            /\ req'[r] = Idle
            /\ reply'.kind = "ask_error")
           => reply = Message(req[r].channel_id, "answer",
                              filter_profanity(strip(req[r].content)), 1)]_vars

\* the INSERT of the question record failed after the counter was
\* incremented, and the error was reported
C14_Witness ==
    /\ reply.kind = "ask_error"
    /\ reply.text = SqliteErrorText
    /\ question_history = <<>>
    /\ \E u \in DOMAIN user_context : Len(user_context[u]) = 1
    /\ \E c \in DOMAIN channel_stats : channel_stats[c].questions_answered = 1

\* C15 (as stated): no message that reports a failure of /ask, /dataupload
\* or /datadelete carries the text of the exception: each is a fixed text.
C15_NoExceptionTextInChat ==
    reply.kind \in {"ask_error", "upload_error", "delete_error", "save_failed"}
        => reply.text = <<>>

\* C16: an /ask answered by the gateway that completes appends exactly one
\* question_history row, with its channel, its user, its question and the
\* filtered answer, and adds exactly 1 to questions_answered of its channel
\* (a missing row counting as 0), whatever other commands are interleaved
\* with it; the rows of other channels stay as they are.
C16_OneRecordAndOneCount ==
    [][\A r \in Reqs :
           (/\ req[r].op = "ask"
            /\ req[r].pc = "recording"
            /\ ~req[r].gateway_failed
            /\ req'[r] = Idle)
           => LET c == req[r].channel_id
                  n == Len(question_history)
              IN  /\ Len(question_history') = n + 1
                  /\ SubSeq(question_history', 1, n) = question_history
                  /\ question_history'[n + 1].channel_id = c
                  /\ question_history'[n + 1].user_id = req[r].user_id
                  /\ question_history'[n + 1].question = req[r].question
                  /\ question_history'[n + 1].answer =
                         filter_profanity(strip(req[r].content))
                  /\ c \in DOMAIN channel_stats'
                  /\ channel_stats'[c].questions_answered =
                         (IF c \in DOMAIN channel_stats
                          THEN channel_stats[c].questions_answered ELSE 0) + 1
                  /\ \A d \in Channels \ {c} :
                         /\ d \in DOMAIN channel_stats'
                                <=> d \in DOMAIN channel_stats
                         /\ d \in DOMAIN channel_stats
                                => channel_stats'[d] = channel_stats[d]]_vars

\* two users' questions in one channel, in flight together, were both
\* recorded and both counted
C16_Witness ==
    /\ Len(question_history) = 2
    /\ question_history[1].channel_id = question_history[2].channel_id
    /\ question_history[1].user_id # question_history[2].user_id
    /\ recorded_at[1] = recorded_at[2]
    /\ channel_stats[question_history[1].channel_id].questions_answered = 2
    /\ \A r \in Reqs : req[r].pc = "idle"

\* C17 (as stated): no user has two question records made less than 5
\* seconds apart, because of two requests of one user at most one passes the
\* rate-limit check and is recorded when the second arrives while the first
\* is in flight or less than 5 seconds after it was recorded.
C17_RecordsFiveSecondsApart ==
    \A i, j \in 1..Len(question_history) :
        (i < j /\ question_history[i].user_id = question_history[j].user_id)
        => recorded_at[j] - recorded_at[i] >= 5 * TicksPerSec

\* C18 (as stated): a save either succeeds, and then the stored text and the
\* channel_stats row are those of the new text, or fails, and then the text
\* and the row are what they were.  Here commands run one at a time, only a
\* save writes a file and only a delete removes one; so, if that holds of
\* every save, whenever no command is running every stored text has a row
\* whose data_size is the length of the text.
C18_TextAndRowInStep ==
    (\A r \in Reqs : req[r].pc = "idle")
    => \A c \in DOMAIN files :
           /\ c \in DOMAIN channel_stats
           /\ channel_stats[c].data_size = Len(files[c])

\* C19 (as stated): whenever no request is in flight, every channel with a
\* channel_stats row has a knowledge base.
C19_RowOnlyWithKnowledgeBase ==
    (\A r \in Reqs : req[r].pc = "idle")
    => \A c \in DOMAIN channel_stats : c \in DOMAIN files

====
